---- MODULE Spec2Model ----
(***************************************************************************)
(* Case / document workflow of ProjectPRT: the case handlers of            *)
(* app/routers/cases.py, create_jv of app/routers/documents.py, the        *)
(* document-number allocator and the legacy clean-up script, run as        *)
(* database transactions (PostgreSQL READ COMMITTED: a statement reads the *)
(* committed rows and the session's own writes, row locks and unique index *)
(* entries are held until the transaction ends).                           *)
(***************************************************************************)
EXTENDS Integers, Sequences, FiniteSets, TLC

\* ------------------------------------------------------------------ bounds
MaxCases == 2
MaxSessions == 2
MaxLinked == 2
MaxAmount == 2
MaxYm == 2
MaxCleanups == 1
SerialCases == 1
MaxRoleUpdates == 2
MaxRoles == 2
MaxTransactions == 1
MaxCategoryUpdates == 2

\* ------------------------------------------------------------- constants
MissingId == 0
NULL == "NULL"
PadWidth == 4

HTTP_200 == 200
HTTP_201 == 201
HTTP_400 == 400
HTTP_403 == 403
HTTP_404 == 404
HTTP_409 == 409
HTTP_500 == 500

\* ---------------------------------------------------------------- enums
CategoryType == {"EXPENSE", "REVENUE", "ASSET"}

CaseStatus == {"DRAFT", "SUBMITTED", "PS_APPROVED", "PS_REJECTED", "CR_ISSUED",
               "PAID", "SETTLEMENT_SUBMITTED", "DB_ISSUED", "CLOSED", "CANCELLED"}

\* PS, CR, DB are the members of models.DocumentType; JV is the member
\* create_jv uses (the doc_prefix_type of migration 47e0884dfe99).
DocumentType == {"PS", "CR", "DB", "JV"}

LegacyDocTypes == {"PS", "CR", "DB"}

LegacyStatuses == {"PS_APPROVED", "PS_REJECTED", "CR_ISSUED", "DB_ISSUED",
                   "SETTLEMENT_SUBMITTED"}

Role == {"requester", "finance", "accounting", "treasury", "admin", "executive"}

\* ---------------------------------------------------------- seeded rows
\* users and user_roles rows: two requesters and one back-office user.
Alice == [username |-> "alice", roles |-> {"requester"}]
Bob   == [username |-> "bob",   roles |-> {"requester"}]
Staff == [username |-> "staff", roles |-> {"finance", "accounting", "treasury"}]

Users == {Alice, Bob, Staff}

\* The administrator of app/routers/admin.py; it files no case.
Root == [username |-> "root", roles |-> {"admin"}]

Accounts == Users \cup {Root}

\* The user_roles rows the seeded accounts start with.
SeedUserRoles ==
  UNION {{[user_id |-> u.username, role |-> r, id |-> 0] : r \in u.roles} :
           u \in Accounts}

\* categories rows: one active category of each type and an inactive one.
Categories ==
  { [id |-> "exp",   type |-> "EXPENSE", is_active |-> TRUE,
     account_code |-> "5100", name_th |-> "exp"],
    [id |-> "rev",   type |-> "REVENUE", is_active |-> TRUE,
     account_code |-> "4100", name_th |-> "rev"],
    [id |-> "asset", type |-> "ASSET",   is_active |-> TRUE,
     account_code |-> "1100", name_th |-> "asset"],
    [id |-> "off",   type |-> "EXPENSE", is_active |-> FALSE,
     account_code |-> "5900", name_th |-> "off"] }

CategoryIds == {c.id : c \in Categories}
NoCategory == "nocat"


Amounts == 1..MaxAmount
Yms == 1..MaxYm
Sessions == 1..MaxSessions

\* ------------------------------------------------------------- variables
VARIABLES
  cases,          \* cases table: case id -> row
  documents,      \* documents table: set of rows
  doc_counters,   \* doc_counters table: <<doc_prefix, year_month>> -> last_number
  jv_line_items,  \* jv_line_items table: set of rows
  payments,       \* payments table: set of rows (n tells equal rows apart)
  audit_logs,     \* audit_logs table: set of rows (n tells equal rows apart)
  now_ym,         \* the calendar month datetime.now(timezone.utc) falls in
  cleanups,       \* runs of cleanup_legacy_data.py so far
  session,        \* per request slot: the request, its position and its result
  categories,     \* categories table: category id -> row
  category_audit, \* audit_logs rows of entity_type "category"
  user_roles,     \* user_roles table: set of rows (id tells rows apart)
  transactions,   \* transactions_v1 table: set of rows (n tells equal rows apart)
  role_updates    \* committed update_user_roles requests so far

vars == <<cases, documents, doc_counters, jv_line_items, payments, audit_logs,
          now_ym, cleanups, session, categories, category_audit, user_roles,
          transactions, role_updates>>

db == <<cases, documents, doc_counters, jv_line_items, payments, audit_logs>>

\* What app/routers/categories.py writes.
catalog == <<categories, category_audit>>

\* The tables of app/rbac.py and app/routers/transactions.py.
rbac == <<user_roles, transactions, role_updates>>

\* select(Category).filter_by(id=id): the committed row of the category.
CategoryOf(id) == categories[id]

\* ------------------------------------------------------- request slots
NoReq ==
  [ op |-> "none", pc |-> "idle", actor |-> "none", case_id |-> MissingId,
    category_id |-> NoCategory, deposit |-> NULL, amount |-> 0,
    linked |-> <<>>, code |-> 0,
    target |-> "none", roles |-> <<>>, deleted |-> {}, waiting |-> FALSE,
    type |-> NULL, dirty |-> {}, held |-> 0,
    ym |-> 0, last_number |-> 0, created |-> FALSE, n |-> 0, idx |-> 0,
    total |-> 0 ]

Free(s) == session[s].pc \in {"idle", "done"}
InFlight(s) == ~Free(s)

\* The response of a finished request: the request and its status code.
Done(req, code) ==
  [NoReq EXCEPT !.op = req.op, !.pc = "done", !.actor = req.actor,
                !.case_id = req.case_id, !.category_id = req.category_id,
                !.deposit = req.deposit, !.linked = req.linked, !.idx = req.idx,
                !.target = req.target, !.roles = req.roles,
                !.code = code]

Request(op, actor, case_id) ==
  [NoReq EXCEPT !.op = op, !.actor = actor.username, !.case_id = case_id]

\* ----------------------------------------------------------- deps.has_role
\* A role gate that lets every authenticated user through.
has_role_open(required_roles, current_user) == TRUE

has_role(required_roles, current_user) ==
  \E role \in required_roles : role \in current_user.roles

\* ------------------------------------------------------ audit.log_audit_event
CountRows(rows, r) == Cardinality({x \in rows : [x EXCEPT !.n = 0] = r})

AddRow(rows, r) == rows \cup {[r EXCEPT !.n = CountRows(rows, r) + 1]}

log_audit_event(entity_id, action, details) ==
  AddRow(audit_logs, [entity_id |-> entity_id, action |-> action,
                      details |-> details, n |-> 0])

Init ==
  /\ cases = <<>>
  /\ documents = {}
  /\ doc_counters = <<>>
  /\ jv_line_items = {}
  /\ payments = {}
  /\ audit_logs = {}
  /\ now_ym = 1
  /\ cleanups = 0
  /\ categories = [id \in CategoryIds |-> CHOOSE c \in Categories : c.id = id]
  /\ category_audit = {}
  /\ user_roles = SeedUserRoles
  /\ transactions = {}
  /\ role_updates = 0
  /\ session \in {[s \in 1..n |-> NoReq] : n \in 1..MaxSessions}

\* ------------------------------------------------------------ create_case
\* A case row that takes no account code from its category.
NewCase_uncoded(payload, current_user) ==
  [ category_id |-> payload.category_id,
    account_code |-> NULL,
    requester_id |-> current_user.username,
    requested_amount |-> payload.requested_amount,
    status |-> "DRAFT",
    deposit_account_id |-> NULL,
    is_receipt_uploaded |-> FALSE ]

NewCase(payload, current_user) ==
  [ category_id |-> payload.category_id,
    account_code |-> CategoryOf(payload.category_id).account_code,
    requester_id |-> current_user.username,
    requested_amount |-> payload.requested_amount,
    status |-> "DRAFT",
    deposit_account_id |-> NULL,
    is_receipt_uploaded |-> FALSE ]

create_case(s, current_user, payload) ==
  LET req == [Request("create_case", current_user, MissingId) EXCEPT
                !.category_id = payload.category_id,
                !.deposit = payload.deposit_account_id,
                !.amount = payload.requested_amount]
      id == Len(cases) + 1
  IN
  /\ Free(s)
  /\ IF payload.category_id \notin CategoryIds
       THEN /\ session' = [session EXCEPT ![s] = Done(req, HTTP_404)]
            /\ UNCHANGED db
     ELSE IF ~CategoryOf(payload.category_id).is_active
       THEN /\ session' = [session EXCEPT ![s] = Done(req, HTTP_400)]
            /\ UNCHANGED db
     ELSE /\ id <= MaxCases
          /\ cases' = Append(cases, NewCase(payload, current_user))
          /\ audit_logs' = log_audit_event(id, "create", NULL)
          /\ session' = [session EXCEPT
                           ![s] = Done([req EXCEPT !.case_id = id], HTTP_201)]
          /\ UNCHANGED <<documents, doc_counters, jv_line_items, payments>>
  /\ UNCHANGED <<now_ym, cleanups, catalog, rbac>>

\* ------------------------------------------------------------ query helpers
CaseIds == 1..Len(cases)

DocsOf(case_id, doc_type) ==
  {d \in documents : d.case_id = case_id /\ d.doc_type = doc_type}

PaymentsOf(case_id, type) ==
  {p \in payments : p.case_id = case_id /\ p.type = type}

AuditOf(case_id, action) ==
  {a \in audit_logs : a.entity_id = case_id /\ a.action = action}

\* Result.scalar_one_or_none(): no row, the row, or MultipleResultsFound.
scalar_one_or_none(rows) ==
  IF rows = {} THEN "none"
  ELSE IF Cardinality(rows) = 1 THEN "one"
  ELSE "multiple"

TheRow(rows) == CHOOSE r \in rows : TRUE

\* ------------------------------------------------------ unique constraints
\* A schema without the UNIQUE constraints: no key is ever refused.
UniqueViolation_none(keys, k) == FALSE

\* A UNIQUE index refuses a key that a committed row already holds.
UniqueViolation(keys, k) == k \in keys

\* ------------------------------------------------- document number format
RECURSIVE Digits(_)
Digits(n) == IF n < 10 THEN <<n>> ELSE Append(Digits(n \div 10), n % 10)

RECURSIVE ZeroPad(_, _)
ZeroPad(ds, width) == IF Len(ds) >= width THEN ds ELSE ZeroPad(<<0>> \o ds, width)

\* f"{prefix}-{current_ym}-{new_number:04d}"
FormatDocNo(prefix, current_ym, new_number) ==
  [prefix |-> prefix, ym |-> current_ym,
   number |-> ZeroPad(Digits(new_number), PadWidth)]

\* An allocator that steps over a number.
NextNumber_skip(last_number) == last_number + 2

\* doc_counter.last_number += 1
NextNumber(last_number) == last_number + 1

\* --------------------------------------------------------- handler tables
DocOps == {"ps_approve_case", "cr_issue_case", "db_issue_case", "create_jv"}
CaseOps == {"submit_case", "ps_approve_case", "cr_issue_case",
            "record_payment_for_case", "submit_settlement_for_case",
            "db_issue_case"}

\* The document type each handler passes to the allocator.
Prefix(op) ==
  CASE op = "ps_approve_case" -> "PS"
    [] op = "cr_issue_case"   -> "CR"
    [] op = "db_issue_case"   -> "DB"
    [] op = "create_jv"       -> "JV"

\* The status each handler has given the case when it commits.
NewStatus(op) ==
  CASE op = "submit_case"                -> "SUBMITTED"
    [] op = "ps_approve_case"            -> "PS_APPROVED"
    [] op = "cr_issue_case"              -> "CR_ISSUED"
    [] op = "record_payment_for_case"    -> "PAID"
    [] op = "submit_settlement_for_case" -> "SETTLEMENT_SUBMITTED"
    [] op = "db_issue_case"              -> "CLOSED"

\* The action each handler writes to the audit log.
AuditAction(op) ==
  CASE op = "submit_case"                -> "submit"
    [] op = "ps_approve_case"            -> "ps_approve"
    [] op = "cr_issue_case"              -> "cr_issue"
    [] op = "record_payment_for_case"    -> "payment_disburse"
    [] op = "submit_settlement_for_case" -> "settlement_submit"
    [] op = "db_issue_case"              -> "db_issue"

\* ------------------------------------------------------------ submit_case
submit_case(s, current_user, case_id) ==
  LET req == Request("submit_case", current_user, case_id) IN
  /\ Free(s)
  /\ session' = [session EXCEPT ![s] =
       IF ~has_role({"requester"}, current_user) THEN Done(req, HTTP_403)
       ELSE IF case_id \notin CaseIds THEN Done(req, HTTP_404)
       ELSE IF cases[case_id].requester_id # current_user.username
         THEN Done(req, HTTP_403)
       ELSE IF cases[case_id].status # "DRAFT" THEN Done(req, HTTP_409)
       ELSE [req EXCEPT !.pc = "flush"]]
  /\ UNCHANGED <<db, now_ym, cleanups, catalog, rbac>>

\* -------------------------------------------------------- ps_approve_case
\* An approval that does not look at the status of the case.
ps_approve_case_any_status(s, current_user, case_id) ==
  LET req == Request("ps_approve_case", current_user, case_id) IN
  /\ Free(s)
  /\ session' = [session EXCEPT ![s] =
       IF ~has_role({"finance", "admin"}, current_user) THEN Done(req, HTTP_403)
       ELSE IF case_id \notin CaseIds THEN Done(req, HTTP_404)
       ELSE IF scalar_one_or_none(DocsOf(case_id, "PS")) = "multiple"
         THEN Done(req, HTTP_500)
       ELSE IF scalar_one_or_none(DocsOf(case_id, "PS")) = "one"
         THEN Done(req, HTTP_409)
       ELSE [req EXCEPT !.pc = "lookup",
                        !.total = cases[case_id].requested_amount]]
  /\ UNCHANGED <<db, now_ym, cleanups, catalog, rbac>>

ps_approve_case(s, current_user, case_id) ==
  LET req == Request("ps_approve_case", current_user, case_id) IN
  /\ Free(s)
  /\ session' = [session EXCEPT ![s] =
       IF ~has_role({"finance", "admin"}, current_user) THEN Done(req, HTTP_403)
       ELSE IF case_id \notin CaseIds THEN Done(req, HTTP_404)
       ELSE IF cases[case_id].status # "SUBMITTED" THEN Done(req, HTTP_409)
       ELSE IF scalar_one_or_none(DocsOf(case_id, "PS")) = "multiple"
         THEN Done(req, HTTP_500)
       ELSE IF scalar_one_or_none(DocsOf(case_id, "PS")) = "one"
         THEN Done(req, HTTP_409)
       ELSE [req EXCEPT !.pc = "lookup",
                        !.total = cases[case_id].requested_amount]]
  /\ UNCHANGED <<db, now_ym, cleanups, catalog, rbac>>

\* ---------------------------------------------------------- cr_issue_case
cr_issue_case(s, current_user, case_id) ==
  LET req == Request("cr_issue_case", current_user, case_id) IN
  /\ Free(s)
  /\ session' = [session EXCEPT ![s] =
       IF ~has_role({"accounting", "admin"}, current_user) THEN Done(req, HTTP_403)
       ELSE IF case_id \notin CaseIds THEN Done(req, HTTP_404)
       ELSE IF cases[case_id].status # "PS_APPROVED" THEN Done(req, HTTP_409)
       ELSE IF scalar_one_or_none(DocsOf(case_id, "CR")) = "multiple"
         THEN Done(req, HTTP_500)
       ELSE IF scalar_one_or_none(DocsOf(case_id, "CR")) = "one"
         THEN Done(req, HTTP_409)
       ELSE [req EXCEPT !.pc = "lookup",
                        !.total = cases[case_id].requested_amount]]
  /\ UNCHANGED <<db, now_ym, cleanups, catalog, rbac>>

\* ------------------------------------------------ record_payment_for_case
record_payment_for_case(s, current_user, case_id) ==
  LET req == Request("record_payment_for_case", current_user, case_id)
      cr == DocsOf(case_id, "CR")
      paid == PaymentsOf(case_id, "DISBURSE")
  IN
  /\ Free(s)
  /\ session' = [session EXCEPT ![s] =
       IF ~has_role({"treasury", "admin"}, current_user) THEN Done(req, HTTP_403)
       ELSE IF case_id \notin CaseIds THEN Done(req, HTTP_404)
       ELSE IF cases[case_id].status # "CR_ISSUED" THEN Done(req, HTTP_409)
       ELSE IF scalar_one_or_none(cr) = "multiple" THEN Done(req, HTTP_500)
       ELSE IF scalar_one_or_none(cr) = "none" THEN Done(req, HTTP_404)
       ELSE IF scalar_one_or_none(paid) = "multiple" THEN Done(req, HTTP_500)
       ELSE IF scalar_one_or_none(paid) = "one" THEN Done(req, HTTP_409)
       ELSE [req EXCEPT !.pc = "flush", !.total = TheRow(cr).amount]]
  /\ UNCHANGED <<db, now_ym, cleanups, catalog, rbac>>

\* --------------------------------------------- submit_settlement_for_case
submit_settlement_for_case(s, current_user, case_id, actual_amount) ==
  LET req == [Request("submit_settlement_for_case", current_user, case_id)
                EXCEPT !.amount = actual_amount]
  IN
  /\ Free(s)
  /\ session' = [session EXCEPT ![s] =
       IF ~has_role({"requester"}, current_user) THEN Done(req, HTTP_403)
       ELSE IF case_id \notin CaseIds THEN Done(req, HTTP_404)
       ELSE IF cases[case_id].status # "PAID" THEN Done(req, HTTP_409)
       ELSE IF cases[case_id].requester_id # current_user.username
         THEN Done(req, HTTP_403)
       ELSE [req EXCEPT !.pc = "flush"]]
  /\ UNCHANGED <<db, now_ym, cleanups, catalog, rbac>>

\* ---------------------------------------------------------- db_issue_case
db_issue_case(s, current_user, case_id) ==
  LET req == Request("db_issue_case", current_user, case_id)
      settlement == AuditOf(case_id, "settlement_submit")
      cr == DocsOf(case_id, "CR")
  IN
  /\ Free(s)
  /\ session' = [session EXCEPT ![s] =
       IF ~has_role({"accounting", "admin"}, current_user) THEN Done(req, HTTP_403)
       ELSE IF case_id \notin CaseIds THEN Done(req, HTTP_404)
       ELSE IF cases[case_id].status # "SETTLEMENT_SUBMITTED"
         THEN Done(req, HTTP_409)
       ELSE IF scalar_one_or_none(DocsOf(case_id, "DB")) = "multiple"
         THEN Done(req, HTTP_500)
       ELSE IF scalar_one_or_none(DocsOf(case_id, "DB")) = "one"
         THEN Done(req, HTTP_409)
       ELSE IF scalar_one_or_none(settlement) = "multiple" THEN Done(req, HTTP_500)
       ELSE IF scalar_one_or_none(settlement) = "none" THEN Done(req, HTTP_404)
       ELSE IF scalar_one_or_none(cr) = "multiple" THEN Done(req, HTTP_500)
       ELSE IF scalar_one_or_none(cr) = "none" THEN Done(req, HTTP_404)
       ELSE [req EXCEPT !.pc = "lookup", !.total = TheRow(settlement).details]]
  /\ UNCHANGED <<db, now_ym, cleanups, catalog, rbac>>

\* ------------------------------------------------ _calculate_variance_info
\* variance = db_amount - cr_amount of the case's CR and DB documents.
Variance(case_id) ==
  TheRow(DocsOf(case_id, "DB")).amount - TheRow(DocsOf(case_id, "CR")).amount

expected_adjustment_type(variance) ==
  IF variance < 0 THEN "REFUND" ELSE IF variance > 0 THEN "ADDITIONAL" ELSE NULL

expected_adjustment_amount(variance) ==
  IF variance < 0 THEN 0 - variance ELSE variance

\* ------------------------------------------------- create_case_adjustment
RECURSIVE existing_total(_)
existing_total(rows) ==
  IF rows = {} THEN 0
  ELSE LET p == CHOOSE x \in rows : TRUE
       IN p.amount + existing_total(rows \ {p})

\* The checks, the Payment row and the audit row; the transaction of
\* "with db.begin()" commits when the block is left.
create_case_adjustment(s, current_user, case_id, type, amount) ==
  LET req == [Request("create_case_adjustment", current_user, case_id)
                EXCEPT !.type = type, !.amount = amount]
      cr == DocsOf(case_id, "CR")
      db_doc == DocsOf(case_id, "DB")
      expected_type == expected_adjustment_type(Variance(case_id))
      expected_amount == expected_adjustment_amount(Variance(case_id))
      remaining == expected_amount - existing_total(PaymentsOf(case_id, expected_type))
  IN
  /\ Free(s)
  /\ session' = [session EXCEPT ![s] =
       IF ~has_role({"treasury", "admin"}, current_user) THEN Done(req, HTTP_403)
       ELSE IF case_id \notin CaseIds THEN Done(req, HTTP_404)
       ELSE IF cases[case_id].status # "CLOSED" THEN Done(req, HTTP_409)
       ELSE IF scalar_one_or_none(cr) = "multiple" THEN Done(req, HTTP_500)
       ELSE IF scalar_one_or_none(db_doc) = "multiple" THEN Done(req, HTTP_500)
       ELSE IF scalar_one_or_none(cr) = "none" \/ scalar_one_or_none(db_doc) = "none"
         THEN Done(req, HTTP_404)
       ELSE IF expected_type = NULL \/ expected_amount = 0 THEN Done(req, HTTP_409)
       ELSE IF type # expected_type THEN Done(req, HTTP_409)
       ELSE IF remaining <= 0 THEN Done(req, HTTP_409)
       ELSE IF amount # remaining THEN Done(req, HTTP_409)
       ELSE [req EXCEPT !.pc = "commit"]]
  /\ UNCHANGED <<db, now_ym, cleanups, catalog, rbac>>

\* ------------------------------------------------ _ensure_case_visibility
PrivilegedRoles == {"finance", "accounting", "admin", "executive", "treasury"}

\* TRUE when the helper lets the caller through, FALSE when it raises 403.
ensure_case_visibility(db_case, current_user) ==
  \/ \E role \in PrivilegedRoles : role \in current_user.roles
  \/ db_case.requester_id = current_user.username

\* -------------------------------------------------------------- read_case
read_case(s, current_user, case_id) ==
  LET req == Request("read_case", current_user, case_id) IN
  /\ Free(s)
  /\ session' = [session EXCEPT ![s] =
       IF case_id \notin CaseIds THEN Done(req, HTTP_404)
       ELSE IF ~ensure_case_visibility(cases[case_id], current_user)
         THEN Done(req, HTTP_403)
       ELSE Done(req, HTTP_200)]
  /\ UNCHANGED <<db, now_ym, cleanups, catalog, rbac>>

\* ------------------------------------------------------ get_case_variance
get_case_variance(s, current_user, case_id) ==
  LET req == Request("get_case_variance", current_user, case_id)
      cr == DocsOf(case_id, "CR")
      dbd == DocsOf(case_id, "DB")
  IN
  /\ Free(s)
  /\ session' = [session EXCEPT ![s] =
       IF case_id \notin CaseIds THEN Done(req, HTTP_404)
       ELSE IF ~ensure_case_visibility(cases[case_id], current_user)
         THEN Done(req, HTTP_403)
       ELSE IF "multiple" \in {scalar_one_or_none(cr), scalar_one_or_none(dbd)}
         THEN Done(req, HTTP_500)
       ELSE IF "none" \in {scalar_one_or_none(cr), scalar_one_or_none(dbd)}
         THEN Done(req, HTTP_404)
       ELSE Done(req, HTTP_200)]
  /\ UNCHANGED <<db, now_ym, cleanups, catalog, rbac>>

\* -------------------------------------------------------------- create_jv
\* A set of case ids in ascending order.
RECURSIVE SortedIds(_)
SortedIds(ids) ==
  IF ids = {} THEN <<>>
  ELSE LET m == CHOOSE x \in ids : \A y \in ids : x <= y
       IN <<m>> \o SortedIds(ids \ {m})

\* all_case_ids = [payload.main_case_id] + payload.linked_case_ids
AllCaseIds(r) == <<r.case_id>> \o r.linked

\* The loop that adds c.requested_amount for each linked id that is found.
RECURSIVE SumLinked(_)
SumLinked(ids) ==
  IF ids = <<>> THEN 0
  ELSE (IF Head(ids) \in CaseIds THEN cases[Head(ids)].requested_amount ELSE 0)
       + SumLinked(Tail(ids))

\* A total that counts the main case once even when the list names it again.
JVTotal_main_once(main_case_id, linked_case_ids) ==
  cases[main_case_id].requested_amount
    + SumLinked(SelectSeq(linked_case_ids, LAMBDA id : id # main_case_id))

\* total_amount = main_case.requested_amount, plus each linked case found.
JVTotal(main_case_id, linked_case_ids) ==
  cases[main_case_id].requested_amount + SumLinked(linked_case_ids)

\* The Case objects the session has loaded whose status is not CLOSED yet:
\* "c.status = CaseStatus.CLOSED" changes these, and only these get an UPDATE.
Loaded(main_case_id, linked_case_ids) ==
  {c \in ({main_case_id} \cup {linked_case_ids[i] : i \in DOMAIN linked_case_ids})
            \cap CaseIds : cases[c].status # "CLOSED"}

create_jv(s, main_case_id, linked_case_ids) ==
  LET req == [NoReq EXCEPT !.op = "create_jv", !.actor = "system",
                           !.case_id = main_case_id, !.linked = linked_case_ids]
  IN
  /\ Free(s)
  /\ session' = [session EXCEPT ![s] =
       IF main_case_id \notin CaseIds THEN Done(req, HTTP_404)
       ELSE [req EXCEPT !.pc = "lookup",
                        !.total = JVTotal(main_case_id, linked_case_ids),
                        !.dirty = Loaded(main_case_id, linked_case_ids)]]
  /\ UNCHANGED <<db, now_ym, cleanups, catalog, rbac>>

\* ------------------------------------------------- what a session has written
NewDocument(r) ==
  [ case_id |-> r.case_id, doc_type |-> Prefix(r.op),
    doc_no |-> FormatDocNo(Prefix(r.op), r.ym, r.n), amount |-> r.total ]

CounterKey(r) == <<Prefix(r.op), r.ym>>

\* The doc_counters row the session has locked (FOR UPDATE) or inserted.
HoldsCounter(r, key) ==
  /\ r.op \in DocOps
  /\ r.pc \in {"incr", "flush", "lines", "update", "commit"}
  /\ CounterKey(r) = key

\* The documents row the session has inserted (flushed) and not yet committed.
FlushedDocuments(r) ==
  IF \/ r.op \in DocOps \ {"create_jv"} /\ r.pc = "commit"
     \/ r.op = "create_jv" /\ r.pc \in {"lines", "update", "commit"}
  THEN {NewDocument(r)} ELSE {}

\* The changed cases as the session lists them: the order of all_case_ids.
FlushOrder_listed(r) ==
  LET ids == SelectSeq(AllCaseIds(r), LAMBDA c : c \in r.dirty)
  IN SelectSeq([i \in DOMAIN ids |->
                  IF \E j \in 1..(i - 1) : ids[j] = ids[i] THEN MissingId ELSE ids[i]],
               LAMBDA c : c # MissingId)

\* sessionmaker(autoflush=False): nothing is written before db.commit(), and
\* the flush of db.commit() updates the changed cases in primary-key order.
FlushOrder(r) == SortedIds(r.dirty)

\* The cases rows the session has updated (flushed) and not yet committed.
LockedCases(r) ==
  IF r.op \in CaseOps /\ r.pc = "commit" THEN {r.case_id}
  ELSE IF r.op = "create_jv" /\ r.pc \in {"update", "commit"}
    THEN {FlushOrder(r)[i] : i \in 1..r.held}
  ELSE {}

Others(s) == DOMAIN session \ {s}

\* ------------------------------------- pending changes of a session, by table
PendingCounters(r) ==
  IF r.op \in DocOps /\ r.pc \in {"incr", "flush", "lines", "update", "commit"}
  THEN [k \in DOMAIN doc_counters \cup {CounterKey(r)} |->
          IF k = CounterKey(r) THEN r.last_number ELSE doc_counters[k]]
  ELSE doc_counters

PendingDocuments(r) ==
  IF r.op \in DocOps /\ r.pc \in {"flush", "lines", "update", "commit"}
  THEN {NewDocument(r)} ELSE {}

ClosedByJv(r) ==
  IF r.op = "create_jv" /\ r.pc \in {"lines", "update", "commit"}
  THEN {AllCaseIds(r)[i] : i \in 1..r.idx} \cap r.dirty ELSE {}

PendingCases(r) ==
  [c \in CaseIds |->
     IF r.op \in CaseOps /\ r.pc \in {"flush", "commit"} /\ c = r.case_id
       THEN [cases[c] EXCEPT !.status = NewStatus(r.op)]
     ELSE IF c \in ClosedByJv(r)
       THEN [cases[c] EXCEPT !.status = "CLOSED"]
     ELSE cases[c]]

PendingLineItems(r) ==
  IF r.op = "create_jv" /\ r.pc \in {"lines", "update", "commit"}
  THEN { [ jv_doc_no |-> NewDocument(r).doc_no, idx |-> i,
           ref_case_id |-> AllCaseIds(r)[i],
           amount |-> cases[AllCaseIds(r)[i]].requested_amount ] : i \in 1..r.idx }
  ELSE {}

PendingPayments(r) ==
  IF r.op = "record_payment_for_case" /\ r.pc \in {"flush", "commit"}
  THEN AddRow(payments, [case_id |-> r.case_id, type |-> "DISBURSE",
                         amount |-> r.total, n |-> 0])
  ELSE IF r.op = "create_case_adjustment" /\ r.pc = "commit"
  THEN AddRow(payments, [case_id |-> r.case_id, type |-> r.type,
                         amount |-> r.amount, n |-> 0])
  ELSE payments

PendingAudit(r) ==
  IF r.op \in CaseOps /\ r.pc = "commit"
  THEN log_audit_event(r.case_id, AuditAction(r.op),
         IF r.op = "submit_settlement_for_case" THEN r.amount ELSE NULL)
  ELSE IF r.op = "create_case_adjustment" /\ r.pc = "commit"
  THEN log_audit_event(r.case_id, "adjustment_record", NULL)
  ELSE audit_logs

\* Session.commit(): everything the session holds becomes the committed rows.
CommitSession(s) ==
  LET r == session[s] IN
  /\ cases' = PendingCases(r)
  /\ documents' = documents \cup PendingDocuments(r)
  /\ doc_counters' = PendingCounters(r)
  /\ jv_line_items' = jv_line_items \cup PendingLineItems(r)
  /\ payments' = PendingPayments(r)
  /\ audit_logs' = PendingAudit(r)

\* A session whose close keeps what the request had written so far.
get_db_keep(s) == CommitSession(s)

\* get_db: the session is closed when the request ends (db.close()); what it
\* did not commit is rolled back and the tables keep their committed rows.
get_db(s) == UNCHANGED db

\* The request as it stood when it failed: the number it had taken is kept.
Failed(r) == [Done(r, HTTP_500) EXCEPT !.ym = r.ym, !.n = r.n]

\* A failure that leaves the counter as the request had advanced it.
Fail_keeps_counter(s) ==
  /\ doc_counters' = PendingCounters(session[s])
  /\ UNCHANGED <<cases, documents, jv_line_items, payments, audit_logs>>
  /\ session' = [session EXCEPT ![s] = Failed(session[s])]

\* An exception ends the request: HTTP 500, the session is closed.
Fail(s) ==
  /\ get_db(s)
  /\ session' = [session EXCEPT ![s] = Failed(session[s])]

\* ----------------------------------------------------- generate_document_no
\* select(DocCounter).filter_by(...).with_for_update(): waits while another
\* transaction holds the row; finds nothing when no committed row exists.
counter_lookup(s) ==
  LET r == session[s]
      key == <<Prefix(r.op), now_ym>>
  IN
  /\ r.pc = "lookup"
  /\ IF key \in DOMAIN doc_counters
       THEN /\ \A o \in Others(s) : ~HoldsCounter(session[o], key)
            /\ session' = [session EXCEPT ![s] =
                 [r EXCEPT !.pc = "incr", !.ym = now_ym,
                           !.last_number = doc_counters[key]]]
       ELSE session' = [session EXCEPT ![s] =
                 [r EXCEPT !.pc = "create", !.ym = now_ym]]
  /\ UNCHANGED <<db, now_ym, cleanups, catalog, rbac>>

\* DocCounter(..., last_number=0); db.add; db.flush(): the INSERT waits for an
\* uncommitted row with the same key and fails on a committed one.
counter_create(s) ==
  LET r == session[s]
      key == <<Prefix(r.op), r.ym>>
  IN
  /\ r.pc = "create"
  /\ IF UniqueViolation(DOMAIN doc_counters, key)
       THEN Fail(s)
       ELSE /\ \A o \in Others(s) : ~HoldsCounter(session[o], key)
            /\ session' = [session EXCEPT ![s] =
                 [r EXCEPT !.pc = "incr", !.created = TRUE, !.last_number = 0]]
            /\ UNCHANGED db
  /\ UNCHANGED <<now_ym, cleanups, catalog, rbac>>

\* doc_counter.last_number += 1; new_number = int(doc_counter.last_number)
counter_increment(s) ==
  LET r == session[s] IN
  /\ r.pc = "incr"
  /\ session' = [session EXCEPT ![s] =
       [r EXCEPT !.pc = "flush", !.last_number = NextNumber(r.last_number),
                 !.n = NextNumber(r.last_number)]]
  /\ UNCHANGED <<db, now_ym, cleanups, catalog, rbac>>

\* -------------------------------------------------------------- db.flush()
\* The UPDATE of the cases row waits for the transaction that holds the row;
\* the INSERT of the documents row waits for an uncommitted row with the same
\* doc_no or the same (case_id, doc_type) and fails on a committed one.
flush(s) ==
  LET r == session[s]
      doc == NewDocument(r)
  IN
  /\ r.pc = "flush"
  /\ r.op \in CaseOps =>
       \A o \in Others(s) : r.case_id \notin LockedCases(session[o])
  /\ r.op \in DocOps =>
       \A o \in Others(s) : \A d \in FlushedDocuments(session[o]) :
          /\ d.doc_no # doc.doc_no
          /\ <<d.case_id, d.doc_type>> # <<doc.case_id, doc.doc_type>>
  /\ IF /\ r.op \in DocOps
        /\ \/ UniqueViolation({d.doc_no : d \in documents}, doc.doc_no)
           \/ UniqueViolation({<<d.case_id, d.doc_type>> : d \in documents},
                              <<doc.case_id, doc.doc_type>>)
       THEN Fail(s)
       ELSE /\ session' = [session EXCEPT ![s] =
                 [r EXCEPT !.pc = IF r.op = "create_jv" THEN "lines" ELSE "commit"]]
            /\ UNCHANGED db
  /\ UNCHANGED <<now_ym, cleanups, catalog, rbac>>

\* create_jv, one turn of "for cid in all_case_ids": the case is read again,
\* a line item is added and the case is marked CLOSED; a missing case makes
\* c.requested_amount raise.
jv_line(s) ==
  LET r == session[s]
      i == r.idx + 1
  IN
  /\ r.op = "create_jv"
  /\ r.pc = "lines"
  /\ IF AllCaseIds(r)[i] \notin CaseIds
       THEN Fail(s)
       ELSE /\ session' = [session EXCEPT ![s] =
                 [r EXCEPT !.idx = i,
                           !.pc = IF i < Len(AllCaseIds(r)) THEN "lines"
                                  ELSE IF r.dirty = {} THEN "commit" ELSE "update"]]
            /\ UNCHANGED db
  /\ UNCHANGED <<now_ym, cleanups, catalog, rbac>>

\* create_jv, the flush of db.commit(): one UPDATE of a cases row, which
\* waits for the transaction that holds the row.
flush_case(s) ==
  LET r == session[s]
      i == r.held + 1
  IN
  /\ r.op = "create_jv"
  /\ r.pc = "update"
  /\ \A o \in Others(s) : FlushOrder(r)[i] \notin LockedCases(session[o])
  /\ session' = [session EXCEPT ![s] =
       [r EXCEPT !.held = i,
                 !.pc = IF i = Len(FlushOrder(r)) THEN "commit" ELSE "update"]]
  /\ UNCHANGED <<db, now_ym, cleanups, catalog, rbac>>

\* db.commit() / the end of "with db.begin()": what the session has flushed
\* becomes the committed rows and its locks are released.
commit(s) ==
  LET r == session[s] IN
  /\ r.pc = "commit"
  /\ CommitSession(s)
  /\ session' = [session EXCEPT ![s] =
       Done(r, IF r.op = "create_case_adjustment" THEN HTTP_201 ELSE HTTP_200)]
  /\ UNCHANGED <<now_ym, cleanups, catalog, rbac>>

\* The transaction is lost before it commits (lock timeout, connection loss).
abort(s) ==
  /\ InFlight(s)
  /\ Fail(s)
  /\ UNCHANGED <<now_ym, cleanups, catalog, rbac>>

\* ------------------------------------------------------------ app/rbac.py
ALL_ROLES == {"admin", "accounting", "requester", "viewer"}

\* get_current_roles: the roles of the user's committed user_roles rows.
get_current_roles(user_id) ==
  {x.role : x \in {y \in user_roles : y.user_id = user_id}}

\* require_roles: an empty list of allowed roles asks for a valid token only.
require_roles(user_id, allowed_roles) ==
  allowed_roles = {} \/ get_current_roles(user_id) \cap allowed_roles # {}

\* deps.get_current_user: the token names the user, the roles are the user's
\* user_roles rows; a stored role that is no member of deps.Role is ignored.
get_current_user(token_sub) ==
  [username |-> token_sub, roles |-> get_current_roles(token_sub) \cap Role]

\* --------------------------------------------------- admin.update_user_roles
\* Another transaction has deleted one of these rows and has not ended.
RowLocked(s, rows) ==
  \E o \in Others(s) :
    session[o].pc = "role_insert" /\ session[o].deleted \cap rows # {}

\* The checks before the first write.
update_user_roles(s, token_sub, user_id, roles) ==
  LET req == [NoReq EXCEPT !.op = "update_user_roles", !.actor = token_sub,
                           !.target = user_id, !.roles = roles]
      open == {o \in DOMAIN session :
                 session[o].pc \in {"role_delete", "role_insert"}}
  IN
  /\ Free(s)
  /\ role_updates + Cardinality(open) < MaxRoleUpdates
  /\ session' = [session EXCEPT ![s] =
       IF ~require_roles(token_sub, {"admin"}) THEN Done(req, HTTP_403)
       ELSE IF \E i \in 1..Len(roles) : roles[i] \notin ALL_ROLES
         THEN Done(req, HTTP_400)
       ELSE IF user_id \notin {u.username : u \in Accounts}
         THEN Done(req, HTTP_404)
       ELSE [req EXCEPT !.pc = "role_delete"]]
  /\ UNCHANGED <<db, now_ym, cleanups, catalog, rbac>>

\* db.query(UserRole).filter(user_id).delete(); db.flush(): the statement
\* deletes the rows that were committed when it started; it waits while another
\* transaction holds one of them and then skips the rows that are gone.
role_delete(s) ==
  LET r == session[s]
      found == IF r.waiting THEN r.deleted
               ELSE {x \in user_roles : x.user_id = r.target}
  IN
  /\ r.pc = "role_delete"
  /\ IF RowLocked(s, found)
       THEN /\ ~r.waiting
            /\ session' = [session EXCEPT
                             ![s] = [r EXCEPT !.waiting = TRUE, !.deleted = found]]
       ELSE session' = [session EXCEPT
              ![s] = [r EXCEPT !.pc = "role_insert", !.waiting = FALSE,
                               !.deleted = found \cap user_roles]]
  /\ UNCHANGED <<db, now_ym, cleanups, catalog, rbac>>

\* for role in payload.roles: db.add(UserRole(...)); db.commit(): the rows are
\* inserted in list order under uq_user_role, then the transaction commits.
role_commit(s) ==
  LET r == session[s]
      kept == user_roles \ r.deleted
      keys == {<<x.user_id, x.role>> : x \in kept}
      added(i) == {<<r.target, r.roles[j]>> : j \in 1..(i - 1)}
      rows == {[user_id |-> r.target, role |-> r.roles[i],
                id |-> role_updates + 1] : i \in 1..Len(r.roles)}
  IN
  /\ r.pc = "role_insert"
  /\ IF \E i \in 1..Len(r.roles) :
          UniqueViolation(keys \cup added(i), <<r.target, r.roles[i]>>)
       THEN /\ Fail(s)
            /\ UNCHANGED rbac
       ELSE /\ user_roles' = kept \cup rows
            /\ role_updates' = role_updates + 1
            /\ session' = [session EXCEPT ![s] = Done(r, HTTP_200)]
            /\ UNCHANGED <<db, transactions>>
  /\ UNCHANGED <<now_ym, cleanups, catalog>>

\* ------------------------------------------- transactions.create_transaction
TransactionTypes == {"income", "expense"}

\* use_mock_data is settings.USE_MOCK_DATA; commit_ok tells whether the insert
\* and the commit go through.
create_transaction(s, identity, type, use_mock_data, commit_ok) ==
  LET req == [NoReq EXCEPT !.op = "create_transaction", !.actor = identity]
      row == [created_by |-> identity, type |-> type, n |-> 0]
  IN
  /\ Free(s)
  /\ IF use_mock_data
       THEN /\ session' = [session EXCEPT ![s] = Done(req, HTTP_201)]
            /\ UNCHANGED transactions
     ELSE IF type \notin TransactionTypes
       THEN /\ session' = [session EXCEPT ![s] = Done(req, HTTP_400)]
            /\ UNCHANGED transactions
     ELSE IF ~commit_ok
       THEN /\ session' = [session EXCEPT ![s] = Done(req, HTTP_500)]
            /\ UNCHANGED transactions
     ELSE /\ Cardinality(transactions) < MaxTransactions
          /\ transactions' = AddRow(transactions, row)
          /\ session' = [session EXCEPT ![s] = Done(req, HTTP_201)]
  /\ UNCHANGED <<db, now_ym, cleanups, catalog, user_roles, role_updates>>

\* ---------------------------------------------- categories.update_category
\* update_data = category_in.model_dump(exclude_unset=True): a record of the
\* fields the request sets.
update_category(s, current_user, category_id, update_data) ==
  LET req == [Request("update_category", current_user, MissingId) EXCEPT
                !.category_id = category_id]
      db_category == categories[category_id]
      others == {categories[id] : id \in CategoryIds \ {category_id}}
      sets(key) == key \in DOMAIN update_data
      new == [key \in DOMAIN db_category |->
                IF sets(key) THEN update_data[key] ELSE db_category[key]]
      action == IF sets("is_active") /\ ~update_data.is_active
                     /\ db_category.is_active
                  THEN "deactivate" ELSE "update"
      row == [entity_id |-> category_id, action |-> action, n |-> 0]
  IN
  /\ Free(s)
  /\ IF ~has_role({"accounting", "admin"}, current_user)
       THEN /\ session' = [session EXCEPT ![s] = Done(req, HTTP_403)]
            /\ UNCHANGED catalog
     ELSE IF category_id \notin CategoryIds
       THEN /\ session' = [session EXCEPT ![s] = Done(req, HTTP_404)]
            /\ UNCHANGED catalog
     ELSE IF /\ sets("name_th")
             /\ update_data.name_th # db_category.name_th
             /\ \E c \in others : c.name_th = update_data.name_th
       THEN /\ session' = [session EXCEPT ![s] = Done(req, HTTP_409)]
            /\ UNCHANGED catalog
     ELSE IF /\ sets("account_code")
             /\ update_data.account_code # db_category.account_code
             /\ \E c \in others : c.account_code = update_data.account_code
       THEN /\ session' = [session EXCEPT ![s] = Done(req, HTTP_409)]
            /\ UNCHANGED catalog
     ELSE /\ Cardinality(category_audit) < MaxCategoryUpdates
          /\ categories' = [categories EXCEPT ![category_id] = new]
          /\ category_audit' = AddRow(category_audit, row)
          /\ session' = [session EXCEPT ![s] = Done(req, HTTP_200)]
  /\ UNCHANGED <<db, now_ym, cleanups, rbac>>

\* ------------------------------------------------- cleanup_legacy_system
ResetStatus(status) == IF status \in LegacyStatuses THEN "DRAFT" ELSE status

cleanup_legacy_system ==
  LET reset == [c \in CaseIds |->
                  [cases[c] EXCEPT !.status = ResetStatus(cases[c].status)]]
  IN
  /\ cleanups < MaxCleanups
  /\ \A s \in DOMAIN session :
       /\ \A k \in DOMAIN doc_counters :
            k[1] \in LegacyDocTypes => ~HoldsCounter(session[s], k)
       /\ \A c \in LockedCases(session[s]) : cases[c].status \notin LegacyStatuses
  /\ documents' = {d \in documents : d.doc_type \notin LegacyDocTypes}
  /\ doc_counters' = [k \in {x \in DOMAIN doc_counters : x[1] \notin LegacyDocTypes}
                        |-> doc_counters[k]]
  /\ cases' = reset
  /\ payments' = {p \in payments : reset[p.case_id].status # "DRAFT"}
  /\ cleanups' = cleanups + 1
  /\ UNCHANGED <<jv_line_items, audit_logs, now_ym, session, catalog, rbac>>

\* ------------------------------------------------------------- the clock
tick ==
  /\ now_ym < MaxYm
  /\ now_ym' = now_ym + 1
  /\ UNCHANGED <<db, cleanups, session, catalog, rbac>>

\* ------------------------------------------------------------ the requests
Payloads ==
  [ category_id : CategoryIds \cup {NoCategory},
    requested_amount : Amounts,
    deposit_account_id : {NULL, "rev"} ]

CaseArgs == CaseIds \cup {MissingId}

LinkedLists == UNION {[1..n -> CaseArgs] : n \in 0..MaxLinked}

\* The steps of a request in flight.
Steps ==
  \/ \E s \in DOMAIN session : counter_lookup(s)
  \/ \E s \in DOMAIN session : counter_create(s)
  \/ \E s \in DOMAIN session : counter_increment(s)
  \/ \E s \in DOMAIN session : flush(s)
  \/ \E s \in DOMAIN session : commit(s)
  \/ \E s \in DOMAIN session : abort(s)

\* The whole workflow on SerialCases cases, one request at a time.
Next ==
  \/ \E u \in {Alice, Staff}, p \in Payloads :
       Len(cases) < SerialCases /\ create_case(1, u, p)
  \/ \E u \in Users, c \in CaseArgs : submit_case(1, u, c)
  \/ \E u \in {Alice, Staff}, c \in CaseArgs : ps_approve_case(1, u, c)
  \/ \E u \in {Alice, Staff}, c \in CaseArgs : cr_issue_case(1, u, c)
  \/ \E u \in {Alice, Staff}, c \in CaseArgs : record_payment_for_case(1, u, c)
  \/ \E u \in Users, c \in CaseArgs, a \in Amounts :
       submit_settlement_for_case(1, u, c, a)
  \/ \E u \in {Alice, Staff}, c \in CaseArgs : db_issue_case(1, u, c)
  \/ \E m \in CaseArgs, l \in LinkedLists : create_jv(1, m, l)
  \/ jv_line(1)
  \/ flush_case(1)
  \/ \E u \in Users, c \in CaseArgs : read_case(1, u, c)
  \/ \E u \in Users, c \in CaseArgs : get_case_variance(1, u, c)
  \/ Steps
  \/ cleanup_legacy_system

InitSerial ==
  /\ Init
  /\ DOMAIN session = {1}

Spec == InitSerial /\ [][Next]_vars

\* Concurrent approvals: every session may approve any submitted case, in any
\* month, and any transaction may be lost.
ExpensePayload ==
  [category_id |-> "exp", requested_amount |-> 1, deposit_account_id |-> NULL]

NextAlloc ==
  \/ \E s \in DOMAIN session : create_case(s, Alice, ExpensePayload)
  \/ \E s \in DOMAIN session, c \in CaseIds : submit_case(s, Alice, c)
  \/ \E s \in DOMAIN session, c \in CaseIds : ps_approve_case(s, Staff, c)
  \/ Steps
  \/ tick

InitConcurrent ==
  /\ Init
  /\ DOMAIN session = Sessions

SpecAlloc == InitConcurrent /\ [][NextAlloc]_vars

\* Journal vouchers over cases of any amounts, with lists that repeat an id,
\* contain the main case or name a case that does not exist.
JvPayloads ==
  [category_id : {"exp"}, requested_amount : Amounts, deposit_account_id : {NULL}]

NextJv ==
  \/ \E p \in JvPayloads : create_case(1, Alice, p)
  \/ \E m \in CaseArgs, l \in LinkedLists : create_jv(1, m, l)
  \/ jv_line(1)
  \/ flush_case(1)
  \/ Steps

SpecJv == InitSerial /\ [][NextJv]_vars

\* The whole chain on one case with requests that overlap: a request that
\* has read the case may flush and commit after another one has committed.
NextFlow ==
  \/ \E s \in DOMAIN session :
       Len(cases) < SerialCases /\ create_case(s, Alice, ExpensePayload)
  \/ \E s \in DOMAIN session, c \in CaseIds : submit_case(s, Alice, c)
  \/ \E s \in DOMAIN session, c \in CaseIds : ps_approve_case(s, Staff, c)
  \/ \E s \in DOMAIN session, c \in CaseIds : cr_issue_case(s, Staff, c)
  \/ \E s \in DOMAIN session, c \in CaseIds : record_payment_for_case(s, Staff, c)
  \/ \E s \in DOMAIN session, c \in CaseIds :
       submit_settlement_for_case(s, Alice, c, MaxAmount)
  \/ \E s \in DOMAIN session, c \in CaseIds : db_issue_case(s, Staff, c)
  \/ \E s \in DOMAIN session, c \in CaseIds : create_jv(s, c, <<>>)
  \/ \E s \in DOMAIN session : jv_line(s)
  \/ \E s \in DOMAIN session : flush_case(s)
  \/ Steps

SpecFlow == InitConcurrent /\ [][NextFlow]_vars

\* Role changes by the administrator while the user keeps sending requests
\* with the same token; two changes may overlap.
RoleNames == {"requester", "accounting", "finance"}

RoleLists == UNION {[1..n -> RoleNames] : n \in 0..MaxRoles}

NextRoles ==
  \/ \E s \in DOMAIN session, u \in {"alice", "ghost"}, r \in RoleLists :
       update_user_roles(s, "root", u, r)
  \/ \E s \in DOMAIN session : update_user_roles(s, "alice", "alice", <<"admin">>)
  \/ \E s \in DOMAIN session : role_delete(s)
  \/ \E s \in DOMAIN session : role_commit(s)
  \/ \E s \in DOMAIN session : abort(s)
  \/ \E s \in DOMAIN session : submit_case(s, get_current_user("alice"), MissingId)
  \/ \E s \in DOMAIN session, type \in TransactionTypes \cup {"transfer"},
        use_mock_data \in BOOLEAN, commit_ok \in BOOLEAN :
       create_transaction(s, "alice", type, use_mock_data, commit_ok)

SpecRoles == InitConcurrent /\ [][NextRoles]_vars

\* Category edits between the steps of one case's workflow.
CategoryUpdates ==
  { [account_code |-> "5200"], [account_code |-> "4100"], [type |-> "REVENUE"],
    [name_th |-> "new"], [name_th |-> "rev"], [is_active |-> FALSE],
    [is_active |-> TRUE], [account_code |-> "5200", is_active |-> FALSE] }

NextCategory ==
  \/ Len(cases) < SerialCases /\ create_case(1, Alice, ExpensePayload)
  \/ \E u \in {Alice, Staff}, id \in {"exp", NoCategory},
        update_data \in CategoryUpdates : update_category(1, u, id, update_data)
  \/ \E c \in CaseIds : submit_case(1, Alice, c)
  \/ \E c \in CaseIds : ps_approve_case(1, Staff, c)
  \/ \E c \in CaseIds : cr_issue_case(1, Staff, c)
  \/ \E c \in CaseIds : record_payment_for_case(1, Staff, c)
  \/ \E c \in CaseIds : submit_settlement_for_case(1, Alice, c, MaxAmount)
  \/ \E c \in CaseIds : db_issue_case(1, Staff, c)
  \/ \E c \in CaseIds : create_jv(1, c, <<>>)
  \/ jv_line(1)
  \/ flush_case(1)
  \/ Steps
  \/ cleanup_legacy_system

SpecCategory == InitSerial /\ [][NextCategory]_vars

\* One case taken through the chain with any requested and settled amount,
\* then adjustments of either type and any amount, which may overlap.
AdjustmentTypes == {"REFUND", "ADDITIONAL"}

NextAdjust ==
  \/ \E p \in JvPayloads : Len(cases) < SerialCases /\ create_case(1, Alice, p)
  \/ \E c \in CaseIds : submit_case(1, Alice, c)
  \/ \E c \in CaseIds : ps_approve_case(1, Staff, c)
  \/ \E c \in CaseIds : cr_issue_case(1, Staff, c)
  \/ \E c \in CaseIds : record_payment_for_case(1, Staff, c)
  \/ \E c \in CaseIds, a \in Amounts : submit_settlement_for_case(1, Alice, c, a)
  \/ \E c \in CaseIds : db_issue_case(1, Staff, c)
  \/ \E s \in DOMAIN session, u \in {Alice, Staff}, c \in CaseArgs,
        type \in AdjustmentTypes, a \in Amounts :
       create_case_adjustment(s, u, c, type, a)
  \/ Steps

SpecAdjust == InitConcurrent /\ [][NextAdjust]_vars

\* Two journal vouchers whose case sets overlap, each naming the other's main
\* case as its linked one (the shared ids in opposite orders), together with
\* submissions and approvals of a shared case, in any month.
SharedLists == [1..1 -> CaseIds]

NextLock ==
  \/ create_case(1, Alice, ExpensePayload)
  \/ \E s \in DOMAIN session, l \in SharedLists :
       Len(cases) = MaxCases /\ l[1] # s /\ create_jv(s, s, l)
  \/ \E s \in DOMAIN session : jv_line(s)
  \/ \E s \in DOMAIN session : flush_case(s)
  \/ \E s \in DOMAIN session, c \in 1..SerialCases :
       Len(cases) = MaxCases /\ submit_case(s, Alice, c)
  \/ \E s \in DOMAIN session, c \in 1..SerialCases :
       Len(cases) = MaxCases /\ ps_approve_case(s, Staff, c)
  \/ Steps
  \/ tick

\* The statements a transaction runs by itself once its request is accepted.
Progress(s) ==
  \/ counter_lookup(s)
  \/ counter_create(s)
  \/ counter_increment(s)
  \/ flush(s)
  \/ jv_line(s)
  \/ flush_case(s)
  \/ commit(s)

\* Every request runs on its own worker and PostgreSQL queues the waiters of
\* a row lock: a statement that can run again and again is run in the end.
SpecLock ==
  /\ InitConcurrent
  /\ [][NextLock]_vars
  /\ \A s \in Sessions : SF_vars(Progress(s))

\* ======================================================================
\* Properties
\* ======================================================================
CounterValue(key) == IF key \in DOMAIN doc_counters THEN doc_counters[key] ELSE 0

DocsNumbered(doc_type, ym) ==
  {d \in documents : d.doc_type = doc_type /\ d.doc_no.ym = ym}

Committed(s, op) ==
  /\ session[s].op = op
  /\ session[s].pc = "done"
  /\ session[s].code = HTTP_200

\* C1: no two committed documents share a doc_no, whatever the interleaving
\* of the concurrent approvals' lookup, row creation, increment and commit.
C1_DistinctDocNos ==
  \A d1, d2 \in documents : d1.doc_no = d2.doc_no => d1 = d2

\* Two sessions have each committed an approval of a different case in the
\* same month.
C1_Witness ==
  /\ DOMAIN session = Sessions
  /\ \A s \in DOMAIN session : Committed(s, "ps_approve_case")
  /\ \E d1, d2 \in documents :
       /\ d1.case_id # d2.case_id
       /\ d1.doc_type = "PS" /\ d2.doc_type = "PS"
       /\ d1.doc_no.ym = d2.doc_no.ym
       /\ \E s1, s2 \in DOMAIN session :
            s1 # s2 /\ session[s1].case_id = d1.case_id
                    /\ session[s2].case_id = d2.case_id

\* C2: the numbers of the committed documents of one (document type,
\* year-month) are exactly 0001 .. last_number of its committed counter: the
\* first is 1, each later one is the committed last_number + 1, and a
\* transaction that is rolled back leaves no gap and no advanced counter.
C2_GapFreeNumbers ==
  /\ \A d \in documents : d.doc_no.prefix = d.doc_type
  /\ \A p \in DocumentType, m \in Yms :
       {d.doc_no.number : d \in DocsNumbered(p, m)}
         = {ZeroPad(Digits(i), PadWidth) : i \in 1..CounterValue(<<p, m>>)}

\* Numbers 0001 and 0002 of one month are committed and an approval has
\* been rolled back.
C2_Witness ==
  /\ \E d1, d2 \in documents :
       /\ d1.doc_no.number = <<0, 0, 0, 1>>
       /\ d2.doc_no.number = <<0, 0, 0, 2>>
       /\ d1.doc_no.ym = d2.doc_no.ym /\ d1.doc_type = d2.doc_type
       /\ doc_counters[<<d1.doc_type, d1.doc_no.ym>>] = 2
  /\ \E s \in DOMAIN session :
       /\ session[s].op = "ps_approve_case"
       /\ session[s].pc = "done"
       /\ session[s].code = HTTP_500

\* C3: a case has at most one document of each single-case voucher type.
C3_AtMostOneVoucherPerType ==
  \A c \in CaseIds, ty \in LegacyDocTypes : Cardinality(DocsOf(c, ty)) <= 1

\* Two approvals of the same case both passed their checks; one committed
\* and the other was refused by the unique constraint.
C3_Witness ==
  \E s1, s2 \in DOMAIN session :
    /\ s1 # s2
    /\ Committed(s1, "ps_approve_case")
    /\ session[s2].op = "ps_approve_case"
    /\ session[s2].pc = "done"
    /\ session[s2].code = HTTP_500
    /\ session[s2].case_id = session[s1].case_id
    /\ Cardinality(DocsOf(session[s1].case_id, "PS")) = 1

JvDocuments == {d \in documents : d.doc_type = "JV"}

LinesOf(d) == {l \in jv_line_items : l.jv_doc_no = d.doc_no}

RECURSIVE SumAmounts(_)
SumAmounts(rows) ==
  IF rows = {} THEN 0
  ELSE LET r == CHOOSE x \in rows : TRUE
       IN r.amount + SumAmounts(rows \ {r})

\* C5: the amount of every committed JV document is the sum of the amounts
\* of the line items that reference it, whatever main case and linked list
\* were given (repeated ids and the main case in the list included).
C5_JvAmountIsSumOfLines ==
  \A d \in JvDocuments : d.amount = SumAmounts(LinesOf(d))

\* A committed JV whose linked list names the main case again: two of its
\* line items reference the main case.
C5_Witness ==
  \E d \in JvDocuments : \E l1, l2 \in LinesOf(d) :
    /\ l1.idx # l2.idx
    /\ l1.ref_case_id = d.case_id
    /\ l2.ref_case_id = d.case_id
    /\ Cardinality(LinesOf(d)) = MaxLinked + 1

\* What the committed tables show of journal vouchers: every JV document has
\* its line items (the first one for its main case) and each case they name
\* is CLOSED; no line item is without its document; a case is CLOSED only as
\* a constituent of a JV; the JV counter counts the committed JV documents.
JvComplete ==
  /\ \A d \in JvDocuments :
       /\ LinesOf(d) # {}
       /\ {l.idx : l \in LinesOf(d)} = 1..Cardinality(LinesOf(d))
       /\ \E l \in LinesOf(d) : l.idx = 1 /\ l.ref_case_id = d.case_id
       /\ \A l \in LinesOf(d) : cases[l.ref_case_id].status = "CLOSED"
  /\ \A l \in jv_line_items : \E d \in JvDocuments : d.doc_no = l.jv_doc_no
  /\ \A c \in CaseIds :
       cases[c].status = "CLOSED" => \E l \in jv_line_items : l.ref_case_id = c
  /\ \A m \in Yms : CounterValue(<<"JV", m>>) = Cardinality(DocsNumbered("JV", m))

\* What the end of a create_jv request does to the committed tables: with
\* HTTP 200 the document, one line item per entry of all_case_ids, the CLOSED
\* status of each of those cases and the counter appear in the same step;
\* with any other result the tables are as they were.
JvEnds ==
  \A s \in DOMAIN session :
    LET r == session[s]
        q == session'[s]
    IN
    (q.op = "create_jv" /\ q.pc = "done" /\ r.pc # "done") =>
      IF q.code = HTTP_200
        THEN /\ documents' = documents \cup {NewDocument(r)}
             /\ NewDocument(r) \notin documents
             /\ jv_line_items' \ jv_line_items =
                  { [ jv_doc_no |-> NewDocument(r).doc_no, idx |-> i,
                      ref_case_id |-> AllCaseIds(r)[i],
                      amount |-> cases[AllCaseIds(r)[i]].requested_amount ]
                    : i \in 1..Len(AllCaseIds(r)) }
             /\ \A i \in 1..Len(AllCaseIds(r)) :
                  cases'[AllCaseIds(r)[i]].status = "CLOSED"
             /\ doc_counters'[CounterKey(r)] = CounterValue(CounterKey(r)) + 1
        ELSE UNCHANGED db

\* C6: create_jv is all-or-nothing: the JV document, all its line items, the
\* CLOSED status of every constituent case and the counter step are committed
\* together, and a create_jv that fails at any step, also after it marked
\* cases CLOSED, leaves no document, no line item, no CLOSED case and the
\* counter as it was.
C6_JvAllOrNothing == []JvComplete /\ [][JvEnds]_vars

\* A create_jv has failed on a missing case after it had inserted the JV
\* document and closed at least one case in its session; the committed
\* tables show no document, no line item and no CLOSED case.
C6_Witness ==
  \E s \in DOMAIN session :
    /\ session[s].op = "create_jv"
    /\ session[s].pc = "done"
    /\ session[s].code = HTTP_500
    /\ session[s].idx >= 1
    /\ session[s].idx < Len(AllCaseIds(session[s]))
    /\ AllCaseIds(session[s])[session[s].idx + 1] \notin CaseIds
    /\ JvDocuments = {}
    /\ jv_line_items = {}
    /\ \A c \in CaseIds : cases[c].status # "CLOSED"

\* ---------------------------------------------------- the voucher names
\* Migration 47e0884dfe99 renames the stored status PS_APPROVED to APPROVED
\* and keeps every other status as it is.
MigratedStatus(status) == IF status = "PS_APPROVED" THEN "APPROVED" ELSE status

\* The edges of the claimed state graph.
StatusGraph ==
  { <<"DRAFT", "SUBMITTED">>, <<"SUBMITTED", "APPROVED">>,
    <<"SUBMITTED", "CLOSED">>, <<"SUBMITTED", "REJECTED">>,
    <<"APPROVED", "PAID">>, <<"PAID", "CLOSED">> }
  \cup {<<a, "CANCELLED">> : a \in {"DRAFT", "SUBMITTED", "APPROVED", "PAID"}}

TypeOf(case_id) == CategoryOf(cases[case_id].category_id).type

\* The request of session s ends in this step.
Ends(s) == session[s].pc # "done" /\ session'[s].pc = "done"

\* C4: every committed change of a case's status (by a handler, by create_jv
\* or by the clean-up script) is an edge of the graph DRAFT->SUBMITTED,
\* SUBMITTED->APPROVED|CLOSED|REJECTED, APPROVED->PAID, PAID->CLOSED,
\* non-terminal->CANCELLED; PS_APPROVED is read as APPROVED.
C4_StatusGraphOnly ==
  [][\A c \in CaseIds :
       LET a == MigratedStatus(cases[c].status)
           b == MigratedStatus(cases'[c].status)
       IN a # b => <<a, b>> \in StatusGraph]_vars

\* C7: the approval of a SUBMITTED case of an EXPENSE category leaves the
\* case APPROVED with exactly one document, of type PV, for the requested
\* amount, numbered PV-{YYMM}-0001 when it is the first of its period.
C7_ApproveExpenseIssuesPV ==
  [][\A s \in DOMAIN session :
       LET r == session[s]
           c == r.case_id
       IN
       (/\ r.op = "ps_approve_case" /\ r.pc = "commit" /\ Ends(s)
        /\ session'[s].code = HTTP_200
        /\ TypeOf(c) = "EXPENSE")
       => /\ cases'[c].status = "APPROVED"
          /\ \E d \in documents' :
               /\ {x \in documents' : x.case_id = c} = {d}
               /\ d.doc_type = "PV"
               /\ d.amount = cases[c].requested_amount
               /\ CounterValue(<<Prefix(r.op), r.ym>>) = 0
                    => d.doc_no = [prefix |-> "PV", ym |-> r.ym,
                                   number |-> <<0, 0, 0, 1>>]]_vars

\* C8: the approval of a SUBMITTED case of a REVENUE or ASSET category moves
\* it directly to CLOSED and leaves exactly one RV document for the requested
\* amount; such a case is never APPROVED or PAID.
C8_ApproveRevenueCloses ==
  /\ [](\A c \in CaseIds :
          TypeOf(c) \in {"REVENUE", "ASSET"}
            => MigratedStatus(cases[c].status) \notin {"APPROVED", "PAID"})
  /\ [][\A s \in DOMAIN session :
          LET r == session[s]
              c == r.case_id
          IN
          (/\ r.op = "ps_approve_case" /\ r.pc = "commit" /\ Ends(s)
           /\ session'[s].code = HTTP_200
           /\ TypeOf(c) \in {"REVENUE", "ASSET"})
          => /\ cases'[c].status = "CLOSED"
             /\ \E d \in documents' :
                  /\ {x \in documents' : x.case_id = c} = {d}
                  /\ d.doc_type = "RV"
                  /\ d.amount = cases[c].requested_amount]_vars

\* C9: create_case for a REVENUE or ASSET category without a
\* deposit_account_id is refused and persists neither a case nor an audit
\* record.
C9_DepositAccountRequired ==
  [][\A s \in DOMAIN session :
       LET q == session'[s] IN
       (/\ q.op = "create_case" /\ q.pc = "done"
        /\ (q # session[s] \/ cases' # cases)
        /\ q.category_id \in CategoryIds
        /\ CategoryOf(q.category_id).type \in {"REVENUE", "ASSET"}
        /\ q.deposit = NULL)
       => /\ q.code \notin {HTTP_200, HTTP_201}
          /\ UNCHANGED <<cases, audit_logs>>]_vars

\* C10: the closing operation (db_issue_case) refuses a PAID case whose
\* is_receipt_uploaded is false and leaves it PAID; it moves a case to CLOSED
\* only from PAID and only with is_receipt_uploaded set.
C10_CloseNeedsReceipt ==
  [][\A s \in DOMAIN session :
       LET r == session[s]
           q == session'[s]
           c == q.case_id
       IN
       /\ (/\ q.op = "db_issue_case"
           /\ q.pc = "done"
           /\ (Ends(s) \/ q # r)
           /\ c \in CaseIds
           /\ cases[c].status = "PAID" /\ ~cases[c].is_receipt_uploaded)
          => q.code \in {HTTP_400, HTTP_403, HTTP_409} /\ cases'[c].status = "PAID"
       /\ (/\ r.op = "db_issue_case" /\ r.pc = "commit" /\ Ends(s)
           /\ q.code = HTTP_200)
          => /\ cases[c].status = "PAID"
             /\ cases[c].is_receipt_uploaded
             /\ cases'[c].status = "CLOSED"]_vars

\* The statuses the claimed create_jv accepts (APPROVED is stored as
\* PS_APPROVED before the migration).
PreJvStatuses == {"APPROVED", "PAID"}

\* C11: create_jv over {main_case_id} \cup linked_case_ids never commits
\* when one of those cases has a status other than APPROVED or PAID: it
\* creates no document or line item and closes no such case.
C11_JvValidatesStatus ==
  [][\A s \in DOMAIN session :
       LET r == session[s] IN
       (/\ r.op = "create_jv" /\ r.pc = "commit" /\ Ends(s)
        /\ \E i \in 1..Len(AllCaseIds(r)) :
             MigratedStatus(cases[AllCaseIds(r)[i]].status) \notin PreJvStatuses)
       => /\ session'[s].code \in {HTTP_400, HTTP_409}
          /\ UNCHANGED db]_vars

\* C12: create_jv answers NotFound when main_case_id or a linked id does not
\* exist, and then commits nothing: stated for the two places where the
\* handler reads a case that is missing (the main case at the start, a
\* listed case in the line-item loop).
C12_JvMissingCaseNotFound ==
  [][\A s \in DOMAIN session :
       LET r == session[s]
           q == session'[s]
       IN
       /\ (/\ q.op = "create_jv" /\ q.pc = "done" /\ q # r
           /\ q.case_id \notin CaseIds)
          => q.code = HTTP_404 /\ UNCHANGED db
       /\ (/\ r.op = "create_jv" /\ r.pc = "lines" /\ Ends(s)
           /\ AllCaseIds(r)[r.idx + 1] \notin CaseIds)
          => q.code = HTTP_404 /\ UNCHANGED db]_vars

UserOf(username) == CHOOSE u \in Users : u.username = username

\* A submit_case request is answered or goes on in this step.
SubmitBegins(s) ==
  /\ Free(s)
  /\ session'[s].op = "submit_case"
  /\ session'[s] # session[s]

\* What the end of a submit_case transaction does: with HTTP 200 the case was
\* DRAFT, belongs to the actor and becomes SUBMITTED with one "submit" audit
\* record; otherwise nothing is committed.
SubmitEnds(s) ==
  LET r == session[s]
      c == r.case_id
  IN
  (r.op = "submit_case" /\ Ends(s)) =>
    IF session'[s].code = HTTP_200
      THEN /\ cases[c].status = "DRAFT"
           /\ cases[c].requester_id = r.actor
           /\ cases' = [cases EXCEPT ![c].status = "SUBMITTED"]
           /\ audit_logs' = log_audit_event(c, "submit", NULL)
      ELSE UNCHANGED db

\* C13 as stated: a submit_case on a missing case is answered NotFound, on
\* another requester's case Forbidden, on an own case that is not DRAFT
\* Conflict, each leaving the tables unchanged; it goes on to SUBMITTED only
\* for an existing, own, DRAFT case.
C13_SubmitErrorsAsStated ==
  [][\A s \in DOMAIN session :
       LET q == session'[s]
           c == q.case_id
       IN
       /\ SubmitBegins(s) =>
            /\ UNCHANGED db
            /\ IF c \notin CaseIds THEN q.pc = "done" /\ q.code = HTTP_404
               ELSE IF cases[c].requester_id # q.actor
                 THEN q.pc = "done" /\ q.code = HTTP_403
               ELSE IF cases[c].status # "DRAFT"
                 THEN q.pc = "done" /\ q.code = HTTP_409
               ELSE TRUE
       /\ SubmitEnds(s)]_vars

\* C13, amended: the role gate comes first. A caller without the requester
\* role is answered Forbidden whatever the case; for a caller with it the
\* answers are NotFound, Forbidden (not owner), Conflict (not DRAFT) in that
\* order and the request goes on only for an existing, own, DRAFT case; a
\* request that is answered with an error commits nothing.
C13_SubmitErrors ==
  [][\A s \in DOMAIN session :
       LET q == session'[s]
           c == q.case_id
       IN
       /\ SubmitBegins(s) =>
            /\ UNCHANGED db
            /\ IF "requester" \notin UserOf(q.actor).roles
                 THEN q.pc = "done" /\ q.code = HTTP_403
               ELSE IF c \notin CaseIds THEN q.pc = "done" /\ q.code = HTTP_404
               ELSE IF cases[c].requester_id # q.actor
                 THEN q.pc = "done" /\ q.code = HTTP_403
               ELSE IF cases[c].status # "DRAFT"
                 THEN q.pc = "done" /\ q.code = HTTP_409
               ELSE q.pc # "done"
       /\ SubmitEnds(s)]_vars

\* The owner of a DRAFT case, who holds no requester role, has been answered
\* Forbidden and the case is still DRAFT with no "submit" audit record.
C13_Witness ==
  \E s \in DOMAIN session :
    /\ session[s].op = "submit_case"
    /\ session[s].pc = "done"
    /\ session[s].code = HTTP_403
    /\ session[s].case_id \in CaseIds
    /\ "requester" \notin UserOf(session[s].actor).roles
    /\ cases[session[s].case_id].requester_id = session[s].actor
    /\ cases[session[s].case_id].status = "DRAFT"
    /\ AuditOf(session[s].case_id, "submit") = {}

\* C14: an approval, by a caller with an approver role, of a case that is
\* not SUBMITTED or that already has a PS document is answered Conflict in
\* the step that reads the case: no document is added or reused, no number
\* is allocated (doc_counters is unchanged) and the case and the audit log
\* are unchanged.
C14_ApproveConflict ==
  [][\A s \in DOMAIN session :
       LET q == session'[s]
           c == q.case_id
       IN
       (/\ Free(s) /\ q.op = "ps_approve_case" /\ q # session[s]
        /\ has_role({"finance", "admin"}, UserOf(q.actor))
        /\ c \in CaseIds
        /\ cases[c].status # "SUBMITTED" \/ DocsOf(c, "PS") # {})
       => /\ q.pc = "done"
          /\ q.code = HTTP_409
          /\ UNCHANGED db]_vars

\* An approval of a case that is already approved and has its PS document
\* has been answered Conflict; the case still has that one document and the
\* counter still stands at the number of documents issued.
C14_Witness ==
  \E s \in DOMAIN session :
    /\ session[s].op = "ps_approve_case"
    /\ session[s].pc = "done"
    /\ session[s].code = HTTP_409
    /\ cases[session[s].case_id].status = "PS_APPROVED"
    /\ Cardinality(DocsOf(session[s].case_id, "PS")) = 1
    /\ \E m \in Yms : CounterValue(<<"PS", m>>) = 1
    /\ Cardinality(documents) = 1

\* C15: once a case is CLOSED or CANCELLED no step changes its row.
C15_TerminalCasesImmutable ==
  [][\A c \in CaseIds :
       cases[c].status \in {"CLOSED", "CANCELLED"} => cases'[c] = cases[c]]_vars

CounterAfter(key) ==
  IF key \in DOMAIN doc_counters' THEN doc_counters'[key] ELSE 0

\* C16: for each (prefix, year-month) the committed last_number never
\* decreases, and every document committed in a step carries a number above
\* the last_number committed before it, so that no number is issued twice;
\* this across allocations, rollbacks and the clean-up script.
C16_CounterMonotonic ==
  [][/\ \A p \in DocumentType, m \in Yms :
          CounterAfter(<<p, m>>) >= CounterValue(<<p, m>>)
     /\ \A d \in documents' \ documents :
          \E i \in (CounterValue(<<d.doc_type, d.doc_no.ym>>) + 1)
                     ..CounterAfter(<<d.doc_type, d.doc_no.ym>>) :
            d.doc_no.number = ZeroPad(Digits(i), PadWidth)]_vars

\* The number PS-{ym}-0001 is held by a committed document for the second
\* time: the case has two ps_approve audit records and the clean-up ran
\* between them.
C16_Reissued ==
  /\ cleanups = 1
  /\ \E d \in documents :
       /\ d.doc_type = "PS"
       /\ d.doc_no.number = <<0, 0, 0, 1>>
       /\ Cardinality(AuditOf(d.case_id, "ps_approve")) = 2

\* The roles of the caller of a request; create_jv authenticates nobody, so
\* its caller has none.
CallerRoles(actor) ==
  IF \E u \in Users : u.username = actor THEN UserOf(actor).roles ELSE {}

MayAccess(actor, case_id) ==
  \/ CallerRoles(actor) \cap PrivilegedRoles # {}
  \/ cases[case_id].requester_id = actor

\* C17: a request on an existing case by a caller who holds none of the
\* roles finance, accounting, admin, executive, treasury and is not the
\* case's requester does not succeed and commits nothing; for every
\* operation on a case, read_case, get_case_variance and create_jv included.
C17_VisibilityRule ==
  [][\A s \in DOMAIN session :
       LET q == session'[s] IN
       (/\ q.pc = "done" /\ q # session[s]
        /\ q.op # "create_case"
        /\ q.case_id \in CaseIds
        /\ ~MayAccess(q.actor, q.case_id))
       => /\ q.code \notin {HTTP_200, HTTP_201}
          /\ UNCHANGED db]_vars

\* The same rule for the handlers that authenticate their caller (every
\* operation but create_jv).
VisibilityOfAuthenticated ==
  [][\A s \in DOMAIN session :
       LET q == session'[s] IN
       (/\ q.pc = "done" /\ q # session[s]
        /\ q.op \notin {"create_case", "create_jv"}
        /\ q.case_id \in CaseIds
        /\ ~MayAccess(q.actor, q.case_id))
       => /\ q.code \notin {HTTP_200, HTTP_201}
          /\ UNCHANGED db]_vars

\* ------------------------------------------------------ roles and requests
Range(f) == {f[i] : i \in 1..Len(f)}

\* The roles of the user's rows after the step.
RolesAfter(user_id) ==
  {x.role : x \in {y \in user_roles' : y.user_id = user_id}}

\* The request of session s is answered in the step that takes it.
Answered(s, op) ==
  /\ session'[s].op = op
  /\ session'[s].pc = "done"
  /\ session[s].pc \in {"idle", "done"}
  /\ session'[s] # session[s]

\* C18: when update_user_roles(user, R) is answered 200 the user's stored
\* roles are exactly the roles of R, and a request of a user is authorised
\* against the stored roles of that user at the time of the request: submit_case
\* is refused with 403 exactly when "requester" is not stored, and
\* update_user_roles exactly when "admin" is not stored.
C18_RolesReplaced ==
  [][\A s \in DOMAIN session :
       LET r == session[s]
           q == session'[s]
       IN
       /\ (r.op = "update_user_roles" /\ Ends(s) /\ q.code = HTTP_200)
            => RolesAfter(r.target) = Range(r.roles)
       /\ Answered(s, "submit_case")
            => (q.code = HTTP_403 <=> "requester" \notin get_current_roles(q.actor))
       /\ Answered(s, "update_user_roles")
            => (q.code = HTTP_403 <=> "admin" \notin get_current_roles(q.actor))]_vars

\* C19: create_transaction by a user whose only role is requester is
\* answered 403 and stores nothing; by a user who holds the accounting role a
\* request is answered 201 and stores one transaction. A request that is
\* answered 400 (its type is unknown) or 500 (its commit failed) is left aside.
C19_TransactionNeedsAccounting ==
  [][\A s \in DOMAIN session :
       LET q == session'[s]
           held == get_current_roles(q.actor)
       IN
       (Answered(s, "create_transaction") /\ q.code \notin {HTTP_400, HTTP_500}) =>
         /\ held = {"requester"}
              => q.code = HTTP_403 /\ transactions' = transactions
         /\ "accounting" \in held
              => /\ q.code = HTTP_201
                 /\ Cardinality(transactions') = Cardinality(transactions) + 1]_vars

C21_OneSubmitWins ==
  [][\A s \in DOMAIN session :
       LET r == session[s] IN
       (r.op = "submit_case" /\ Ends(s) /\ session'[s].code = HTTP_200)
         => /\ cases[r.case_id].status = "DRAFT"
            /\ Cardinality({a \in audit_logs' : a.entity_id = r.case_id
                                                /\ a.action = "submit"}) = 1]_vars

\* -------------------------------------------------------- failed approvals
\* C22: a step of an approval in progress that is not its successful commit
\* (a step before the commit, a uniqueness violation at the flush, a commit
\* that fails) leaves every committed table as it was: the counter, the
\* documents, the case and the audit log change together or not at all.
C22_FailedApproveRollsBack ==
  [][\A s \in DOMAIN session :
       LET r == session[s] IN
       (/\ r.op = "ps_approve_case"
        /\ InFlight(s)
        /\ session'[s] # r
        /\ ~(Ends(s) /\ session'[s].code = HTTP_200))
         => UNCHANGED db]_vars

\* An approval has failed after it had taken number n from the counter: the
\* committed counter does not show the increment, no document carries the
\* number, and the case is still SUBMITTED with no 'ps_approve' audit row.
C22_Witness ==
  \E s \in DOMAIN session :
    LET r == session[s] IN
    /\ r.op = "ps_approve_case"
    /\ r.pc = "done"
    /\ r.code = HTTP_500
    /\ r.n >= 1
    /\ CounterValue(<<"PS", r.ym>>) < r.n
    /\ DocsOf(r.case_id, "PS") = {}
    /\ cases[r.case_id].status = "SUBMITTED"
    /\ AuditOf(r.case_id, "ps_approve") = {}

\* ------------------------------------------------- journal vouchers as sets
\* The requested amounts of a set of cases, each case counted once.
RECURSIVE SumRequested(_)
SumRequested(ids) ==
  IF ids = {} THEN 0
  ELSE LET c == CHOOSE x \in ids : TRUE
       IN cases[c].requested_amount + SumRequested(ids \ {c})

\* C23: a committed JV has one line item for each distinct case of
\* {main_case_id} \cup linked_case_ids, and its amount is the sum of the
\* requested amounts of those cases, each counted once.
C23_JvOverDistinctCases ==
  \A d \in JvDocuments :
    /\ \A l1, l2 \in LinesOf(d) : l1.ref_case_id = l2.ref_case_id => l1 = l2
    /\ d.amount = SumRequested({l.ref_case_id : l \in LinesOf(d)})

\* ------------------------------------------------------------ audit records
\* The audit rows of the case that the step adds.
NewAuditOf(case_id) == {a \in audit_logs' \ audit_logs : a.entity_id = case_id}

\* C24: a step of a request that changes the committed status of a case
\* (the commit of submit, approve, payment, settlement, closing or create_jv)
\* adds exactly one audit row for that case, and a request that is answered
\* with an error adds none.
C24_StatusChangeAudited ==
  [][/\ \A c \in CaseIds :
          (cases'[c].status # cases[c].status /\ cleanups' = cleanups)
            => Cardinality(NewAuditOf(c)) = 1
     /\ \A s \in DOMAIN session :
          (Ends(s) /\ session'[s].code \notin {HTTP_200, HTTP_201})
            => audit_logs' = audit_logs]_vars

\* ----------------------------------------------------------------- payments
\* C26: a case never has more than one committed Payment of type DISBURSE.
C26_OneDisbursePerCase ==
  \A c \in CaseIds : Cardinality(PaymentsOf(c, "DISBURSE")) <= 1

\* ------------------------------------------------ one journal voucher a case
\* The JV documents whose line items reference the case.
JvsOf(case_id) ==
  {l.jv_doc_no : l \in {x \in jv_line_items : x.ref_case_id = case_id}}

\* C28: the line items that reference a case belong to at most one JV.
C28_CaseInOneJv == \A c \in CaseIds : Cardinality(JvsOf(c)) <= 1

\* ------------------------------------------------------------ settlements
\* C29: for every case in SETTLEMENT_SUBMITTED the lookup of db_issue_case
\* finds exactly one 'settlement_submit' audit row, so the case can be closed.
C29_SettlementClosable ==
  \A c \in CaseIds :
    cases[c].status = "SETTLEMENT_SUBMITTED"
      => scalar_one_or_none(AuditOf(c, "settlement_submit")) = "one"

\* Two settlements of one case have committed: the case is in
\* SETTLEMENT_SUBMITTED with two 'settlement_submit' audit rows and a
\* db_issue_case on it has been answered 500.
C29_Stuck ==
  \E s \in DOMAIN session :
    LET r == session[s] IN
    /\ r.op = "db_issue_case"
    /\ r.pc = "done"
    /\ r.code = HTTP_500
    /\ r.n = 0
    /\ cases[r.case_id].status = "SETTLEMENT_SUBMITTED"
    /\ Cardinality(AuditOf(r.case_id, "settlement_submit")) = 2

\* ---------------------------------------------------------- voucher order
\* C30: a case has a CR document only if it has a PS document, and a DB
\* document only if it has a CR document and a DISBURSE payment of the
\* amount of that CR document.
C30_VouchersInOrder ==
  \A c \in CaseIds :
    /\ DocsOf(c, "CR") # {} => DocsOf(c, "PS") # {}
    /\ DocsOf(c, "DB") # {} =>
         /\ DocsOf(c, "CR") # {}
         /\ \E p \in PaymentsOf(c, "DISBURSE") :
              \E d \in DocsOf(c, "CR") : p.amount = d.amount

\* -------------------------------------------------------------- adjustments
\* C27: for a CLOSED case with its CR and DB documents the recorded
\* adjustments of the expected type add up to at most |DB - CR|, and no
\* adjustment of another type is recorded (none at all when DB = CR).
C27_AdjustmentsBounded ==
  \A c \in CaseIds :
    (/\ cases[c].status = "CLOSED"
     /\ scalar_one_or_none(DocsOf(c, "CR")) = "one"
     /\ scalar_one_or_none(DocsOf(c, "DB")) = "one")
      => LET expected == expected_adjustment_type(Variance(c)) IN
         /\ \A type \in AdjustmentTypes \ {expected} : PaymentsOf(c, type) = {}
         /\ expected # NULL =>
              SumAmounts(PaymentsOf(c, expected))
                <= expected_adjustment_amount(Variance(c))

\* ------------------------------------------------------------ lock order
\* C25: create_jv calls over overlapping cases, the shared ids in any order,
\* together with single-case operations on those cases never deadlock: under
\* fair scheduling every transaction in flight commits or aborts.
C25_NoDeadlock ==
  \A s \in Sessions : InFlight(s) ~> Free(s)

\* Two JVs name each other's main case as the linked one; one holds a cases
\* row and the other, which holds none, waits for that row.
C25_Witness ==
  \E s, o \in DOMAIN session :
    LET r == session[s]
        q == session[o]
    IN /\ s # o
       /\ r.op = "create_jv" /\ q.op = "create_jv"
       /\ r.linked = <<q.case_id>> /\ q.linked = <<r.case_id>>
       /\ r.case_id # q.case_id
       /\ r.pc = "update" /\ r.held = 1
       /\ q.pc = "update" /\ q.held = 0
       /\ FlushOrder(q)[1] \in LockedCases(r)
====
